---------------------------- MODULE Spec2Model ----------------------------
(***************************************************************************)
(* Model of the GuestVM debug channel (Native/tele/guestvm/               *)
(* guestvmDBChannel.c): the static coordinator state, nativeResume's      *)
(* resume / poll / suspend-all cycle at the granularity of its shared     *)
(* reads and writes, the concurrent nativeSuspendAll request, the         *)
(* watchpoint queries over the cached snapshot, and the target domain     *)
(* behind the db_* collaborator calls.                                    *)
(***************************************************************************)
EXTENDS Integers, Sequences, FiniteSets, TLC

(***************************************************************************)
(* Bounds of the model.                                                    *)
(***************************************************************************)
\* number of threads of the target domain
NumThreads == 2
\* poll iterations after which a cycle is no longer followed
MaxPolls == 3
\* sizes of the three canonical register regions, in bytes of the model, and
\* the longest output array a caller passes
IntegerRegionSize == 3
StateRegionSize == 1
FloatingPointRegionSize == 2
MaxRegLen == 4

(***************************************************************************)
(* Thread state flags.  The bit values live in a header outside this file; *)
(* a flag word is modelled as the set of the flags whose bit is set.       *)
(***************************************************************************)
RUNNABLE_FLAG == "RUNNABLE"
RUNNING_FLAG == "RUNNING"
DYING_FLAG == "DYING"
REQ_DEBUG_SUSPEND_FLAG == "REQ_DEBUG_SUSPEND"
DEBUG_SUSPEND_FLAG == "DEBUG_SUSPEND"
AUX1_FLAG == "AUX1"
AUX2_FLAG == "AUX2"
JOIN_FLAG == "JOIN"
SLEEP_FLAG == "SLEEP"
WATCH_FLAG == "WATCH"

AllFlags ==
    {RUNNABLE_FLAG, RUNNING_FLAG, DYING_FLAG, REQ_DEBUG_SUSPEND_FLAG,
     DEBUG_SUSPEND_FLAG, AUX1_FLAG, AUX2_FLAG, JOIN_FLAG, SLEEP_FLAG, WATCH_FLAG}

\* a thread list of no threads: what db_gather_threads has for an exited domain
NoThreads == << >>

\* pointer values: the null pointer, and the address of an allocated block
NULL == "NULL"
Block == "block"

\* the pointer db_gather_threads returns with a thread list
Ptr(list) == IF list = NoThreads THEN NULL ELSE Block

ThreadIds == 1 .. NumThreads

VARIABLES
    \* the static state of guestvmDBChannel.c
    terminated, threads_at_rest, num_threads_at_rest, suspend_all_request,
    \* the block threads_at_rest points to: its contents (NoThreads once it is
    \* released or when there is none), and whether it has been passed to free()
    rest_data, rest_freed,
    \* nativeResume: position and locals (threads holds the list the pointer of
    \* that name refers to)
    pc, sleep_time, threads, num_threads,
    \* the target domain behind the db_* calls
    domain, tflags,
    \* the debugger process has taken a fatal fault
    crashed,
    \* history of the current resume cycle
    polls, trace, first_ds, req_before, req_polling, gathers_since_req,
    sleeps_since_req, slept,
    \* a db_* call was issued while terminated was set
    call_after_term,
    \* the input of a stateless entry point, and the result an entry point
    \* hands to its caller (<<>>: nothing pending)
    inp, out

static == <<terminated, threads_at_rest, num_threads_at_rest, suspend_all_request>>
locals == <<pc, sleep_time, threads, num_threads>>
target == <<domain, tflags>>
history == <<polls, trace, first_ds, req_before, req_polling, gathers_since_req,
             sleeps_since_req, slept>>
io == <<inp, out>>
vars == <<static, rest_data, rest_freed, locals, target, crashed, history, call_after_term, io>>

(***************************************************************************)
(* is_state, is_th_state, toThreadState                                    *)
(***************************************************************************)
is_state(state, flag) == IF flag \in state THEN 1 ELSE 0

is_th_state(thread, flag) == is_state(thread.flags, flag)

toThreadState_SleepAfterWatch(state) ==
    IF is_state(state, AUX1_FLAG) = 1 THEN "TS_MONITOR_WAIT"
    ELSE IF is_state(state, AUX2_FLAG) = 1 THEN "TS_NOTIFY_WAIT"
    ELSE IF is_state(state, JOIN_FLAG) = 1 THEN "TS_JOIN_WAIT"
    ELSE IF is_state(state, WATCH_FLAG) = 1 THEN "TS_WATCHPOINT"
    ELSE IF is_state(state, SLEEP_FLAG) = 1 THEN "TS_SLEEPING"
    ELSE "TS_SUSPENDED"

toThreadState(state) ==
    IF is_state(state, AUX1_FLAG) = 1 THEN "TS_MONITOR_WAIT"
    ELSE IF is_state(state, AUX2_FLAG) = 1 THEN "TS_NOTIFY_WAIT"
    ELSE IF is_state(state, JOIN_FLAG) = 1 THEN "TS_JOIN_WAIT"
    ELSE IF is_state(state, SLEEP_FLAG) = 1 THEN "TS_SLEEPING"
    ELSE IF is_state(state, WATCH_FLAG) = 1 THEN "TS_WATCHPOINT"
    ELSE "TS_SUSPENDED"

(***************************************************************************)
(* The target domain and the db_* collaborator.                            *)
(***************************************************************************)
\* db_gather_threads: the thread list; none (a NULL result) once the domain
\* has exited
db_gather_threads ==
    IF domain = "exited" THEN NoThreads
    ELSE [i \in ThreadIds |-> [id |-> i, flags |-> tflags[i]]]

\* db_resume_all: every debug-suspended thread runs again, requests are dropped
db_resume_all_flags(f) ==
    IF DEBUG_SUSPEND_FLAG \in f THEN {RUNNABLE_FLAG} ELSE f \ {REQ_DEBUG_SUSPEND_FLAG}

\* db_suspend_all: runnable threads are halted, the others are asked to halt
db_suspend_all_flags(f) ==
    IF RUNNABLE_FLAG \in f THEN {DEBUG_SUSPEND_FLAG}
    ELSE IF DEBUG_SUSPEND_FLAG \in f THEN f
    ELSE f \cup {REQ_DEBUG_SUSPEND_FLAG}

\* a db_* call is issued: remember whether terminated was already set
DbCall == call_after_term' = (call_after_term \/ terminated = 1)

TargetAlive == ~crashed /\ out = << >> /\ domain = "alive"

\* a running thread halts itself (breakpoint, or a pending suspend request)
TargetSelfSuspend ==
    \E t \in ThreadIds :
        /\ TargetAlive
        /\ RUNNABLE_FLAG \in tflags[t]
        /\ tflags' = [tflags EXCEPT ![t] = {DEBUG_SUSPEND_FLAG}]
        /\ UNCHANGED <<static, rest_data, rest_freed, locals, domain, crashed, history,
                       call_after_term, io>>

\* a running thread halts after an access to a watched range
TargetHitWatchpoint ==
    \E t \in ThreadIds :
        /\ TargetAlive
        /\ RUNNABLE_FLAG \in tflags[t]
        /\ REQ_DEBUG_SUSPEND_FLAG \notin tflags[t]
        /\ tflags' = [tflags EXCEPT ![t] = {DEBUG_SUSPEND_FLAG, WATCH_FLAG}]
        /\ UNCHANGED <<static, rest_data, rest_freed, locals, domain, crashed, history,
                       call_after_term, io>>

\* a running thread goes to sleep
TargetSleep ==
    \E t \in ThreadIds :
        /\ TargetAlive
        /\ tflags[t] = {RUNNABLE_FLAG}
        /\ tflags' = [tflags EXCEPT ![t] = {SLEEP_FLAG}]
        /\ UNCHANGED <<static, rest_data, rest_freed, locals, domain, crashed, history,
                       call_after_term, io>>

\* a sleep expires: the thread becomes runnable, a pending request stays
TargetWake ==
    \E t \in ThreadIds :
        /\ TargetAlive
        /\ SLEEP_FLAG \in tflags[t]
        /\ DEBUG_SUSPEND_FLAG \notin tflags[t]
        /\ tflags' = [tflags EXCEPT ![t] = (tflags[t] \ {SLEEP_FLAG}) \cup {RUNNABLE_FLAG}]
        /\ UNCHANGED <<static, rest_data, rest_freed, locals, domain, crashed, history,
                       call_after_term, io>>

\* a thread hits a watchpoint before its sleep flag has been cleared
TargetWakeAtWatchpoint ==
    \E t \in ThreadIds :
        /\ TargetAlive
        /\ tflags[t] = {SLEEP_FLAG}
        /\ tflags' = [tflags EXCEPT ![t] = {SLEEP_FLAG, WATCH_FLAG, DEBUG_SUSPEND_FLAG}]
        /\ UNCHANGED <<static, rest_data, rest_freed, locals, domain, crashed, history,
                       call_after_term, io>>

\* the target domain exits: its threads are gone
TargetExit ==
    /\ TargetAlive
    /\ domain' = "exited"
    /\ tflags' = [t \in ThreadIds |-> {}]
    /\ UNCHANGED <<static, rest_data, rest_freed, locals, crashed, history,
                   call_after_term, io>>

(***************************************************************************)
(* Initial state: the statics of lines 35-39, no cycle begun, the domain   *)
(* held at rest for the debugger.                                          *)
(***************************************************************************)
Start ==
    /\ terminated = 0
    /\ threads_at_rest = NULL
    /\ num_threads_at_rest = 0
    /\ suspend_all_request = 0
    /\ rest_data = NoThreads
    /\ rest_freed = FALSE
    /\ pc = "idle"
    /\ sleep_time = 0
    /\ threads = NoThreads
    /\ num_threads = 0
    /\ domain = "alive"
    /\ tflags = [t \in ThreadIds |-> {DEBUG_SUSPEND_FLAG}]
    /\ crashed = FALSE
    /\ polls = 0
    /\ trace = << >>
    /\ first_ds = 0
    /\ req_before = FALSE
    /\ req_polling = FALSE
    /\ gathers_since_req = 0
    /\ sleeps_since_req = 0
    /\ slept = << >>
    /\ call_after_term = FALSE
    /\ out = << >>

Init == Start /\ inp = << >>

Min(a, b) == IF a < b THEN a ELSE b

\* an entry point may start: no fault so far, no result waiting for its caller
Ready == ~crashed /\ out = << >>

(***************************************************************************)
(* teleThreadLocalsInitialize (a new connection) and nativeAttach          *)
(***************************************************************************)
teleThreadLocalsInitialize_KeepsRequest ==
    /\ Ready
    /\ pc = "idle"
    /\ terminated' = 0
    /\ threads_at_rest' = NULL
    /\ num_threads_at_rest' = 0
    /\ rest_data' = NoThreads
    /\ rest_freed' = FALSE
    /\ call_after_term' = FALSE
    /\ out' = <<"teleThreadLocalsInitialize", static>>
    /\ UNCHANGED <<suspend_all_request, locals, target, crashed, history, inp>>

\* lines 46-54, between two connections.  The block is not released, only the
\* pointer to it is dropped; the result notes the statics that were found
teleThreadLocalsInitialize ==
    /\ Ready
    /\ pc = "idle"
    /\ terminated' = 0
    /\ threads_at_rest' = NULL
    /\ num_threads_at_rest' = 0
    /\ suspend_all_request' = 0
    /\ rest_data' = NoThreads
    /\ rest_freed' = FALSE
    /\ call_after_term' = FALSE
    /\ out' = <<"teleThreadLocalsInitialize", static>>
    /\ UNCHANGED <<locals, target, crashed, history, inp>>

\* db_attach on a connection whose statics are fresh: the channel is bound to
\* a new domain, held at rest
nativeAttach ==
    /\ Ready
    /\ pc = "idle"
    /\ domain = "exited"
    /\ terminated = 0
    /\ threads_at_rest = NULL
    /\ domain' = "alive"
    /\ tflags' = [t \in ThreadIds |-> {DEBUG_SUSPEND_FLAG}]
    /\ UNCHANGED <<static, rest_data, rest_freed, locals, crashed, history, call_after_term, io>>

(***************************************************************************)
(* nativeSuspendAll                                                        *)
(***************************************************************************)
Polling == pc \in {"loop_test", "gather", "sleep_test", "sleep"}

\* what a call of nativeSuspendAll means to the cycle in progress
NoteRequest ==
    /\ req_before' = (req_before \/ pc = "resume_all")
    /\ req_polling' = (req_polling \/ Polling)

nativeSuspendAll_NoStore ==
    /\ Ready
    /\ NoteRequest
    /\ UNCHANGED <<static, rest_data, rest_freed, locals, target, crashed, polls, trace,
                   first_ds, gathers_since_req, sleeps_since_req, slept,
                   call_after_term, io>>

nativeSuspendAll ==
    /\ Ready
    /\ suspend_all_request' = 1
    /\ NoteRequest
    /\ UNCHANGED <<terminated, threads_at_rest, num_threads_at_rest, rest_data, rest_freed,
                   locals, target, crashed, polls, trace, first_ds,
                   gathers_since_req, sleeps_since_req, slept, call_after_term, io>>

(***************************************************************************)
(* nativeResume, one action per shared read or write                       *)
(***************************************************************************)
\* usecs added to sleep_time per poll
SleepIncrement == 2000

\* line 227: if (threads_at_rest != NULL) free(threads_at_rest);
\* freeing a block a second time is undefined: the call returns or aborts
Resume_free ==
    /\ Ready
    /\ pc = "idle"
    /\ IF threads_at_rest # NULL
       THEN /\ rest_data' = NoThreads
            /\ rest_freed' = TRUE
            /\ IF rest_freed THEN crashed' \in BOOLEAN ELSE crashed' = FALSE
       ELSE UNCHANGED <<rest_data, rest_freed, crashed>>
    /\ pc' = "resume_all"
    /\ trace' = IF threads_at_rest # NULL THEN <<"free">> ELSE << >>
    /\ req_before' = (suspend_all_request = 1)
    /\ UNCHANGED <<static, sleep_time, threads, num_threads, target, polls,
                   first_ds, req_polling, gathers_since_req, sleeps_since_req, slept,
                   call_after_term, io>>

\* lines 228-230: db_resume_all(); usleep(500);
Resume_resume_all ==
    /\ Ready
    /\ pc = "resume_all"
    /\ tflags' = IF domain = "alive"
                 THEN [t \in ThreadIds |-> db_resume_all_flags(tflags[t])]
                 ELSE tflags
    /\ DbCall
    /\ trace' = Append(trace, "db_resume_all")
    /\ pc' = "loop_test"
    /\ UNCHANGED <<static, rest_data, rest_freed, sleep_time, threads, num_threads,
                   domain, crashed, polls, first_ds, req_before, req_polling,
                   gathers_since_req, sleeps_since_req, slept, io>>

Resume_loop_test_TimesOut ==
    /\ Ready
    /\ pc = "loop_test"
    /\ pc' = IF suspend_all_request = 0 /\ polls < 2 THEN "gather" ELSE "clear"
    /\ UNCHANGED <<static, rest_data, rest_freed, sleep_time, threads, num_threads,
                   target, crashed, history, call_after_term, io>>

\* line 231: while (suspend_all_request == 0)
Resume_loop_test ==
    /\ Ready
    /\ pc = "loop_test"
    /\ pc' = IF suspend_all_request = 0 THEN "gather" ELSE "clear"
    /\ UNCHANGED <<static, rest_data, rest_freed, sleep_time, threads, num_threads,
                   target, crashed, history, call_after_term, io>>

HasDebugSuspended_FirstOnly(ths, n) ==
    \E i \in 1 .. Min(n, 1) : is_th_state(ths[i], DEBUG_SUSPEND_FLAG) = 1

\* the scan of lines 244-249 over a poll snapshot
HasDebugSuspended(ths, n) ==
    \E i \in 1 .. n : is_th_state(ths[i], DEBUG_SUSPEND_FLAG) = 1

\* a poll that treats a NULL list as an empty one and polls on
Resume_poll_NullIsEmpty ==
    /\ Ready
    /\ pc = "gather"
    /\ polls' = polls + 1
    /\ gathers_since_req' = gathers_since_req + (IF req_polling THEN 1 ELSE 0)
    /\ DbCall
    /\ suspend_all_request' =
           IF HasDebugSuspended(db_gather_threads, Len(db_gather_threads))
           THEN 1 ELSE suspend_all_request
    /\ first_ds' =
           IF first_ds = 0
              /\ \E i \in DOMAIN db_gather_threads :
                     DEBUG_SUSPEND_FLAG \in db_gather_threads[i].flags
           THEN polls + 1 ELSE first_ds
    /\ trace' = Append(trace, "db_gather_threads")
    /\ pc' = "sleep_test"
    /\ UNCHANGED <<terminated, io, threads_at_rest, num_threads_at_rest, rest_data,
                   rest_freed, sleep_time, threads, num_threads, target, crashed,
                   req_before, req_polling, sleeps_since_req, slept>>

\* lines 233-250: one poll; a NULL list ends the cycle with the sign-off
Resume_poll ==
    /\ Ready
    /\ pc = "gather"
    /\ LET ths == db_gather_threads
           n == Len(ths)
       IN  /\ polls' = polls + 1
           /\ gathers_since_req' = gathers_since_req + (IF req_polling THEN 1 ELSE 0)
           /\ DbCall
           /\ IF Ptr(ths) = NULL
              THEN /\ terminated' = 1
                   /\ trace' = trace \o <<"db_gather_threads", "db_signoff">>
                   /\ out' = <<"nativeResume", 1>>
                   /\ pc' = "idle"
                   /\ UNCHANGED <<suspend_all_request, first_ds, inp>>
              ELSE /\ suspend_all_request' =
                          IF HasDebugSuspended(ths, n) THEN 1 ELSE suspend_all_request
                   /\ first_ds' =
                          IF first_ds = 0
                             /\ \E i \in DOMAIN ths : DEBUG_SUSPEND_FLAG \in ths[i].flags
                          THEN polls + 1 ELSE first_ds
                   /\ trace' = Append(trace, "db_gather_threads")
                   /\ pc' = "sleep_test"
                   /\ UNCHANGED <<terminated, io>>
    /\ UNCHANGED <<threads_at_rest, num_threads_at_rest, rest_data, rest_freed, sleep_time,
                   threads, num_threads, target, crashed, req_before, req_polling,
                   sleeps_since_req, slept>>

Resume_sleep_test_NoGrowth ==
    /\ Ready
    /\ pc = "sleep_test"
    /\ IF suspend_all_request = 0
       THEN /\ polls < MaxPolls
            /\ sleep_time' = SleepIncrement
            /\ pc' = "sleep"
       ELSE /\ pc' = "loop_test"
            /\ UNCHANGED sleep_time
    /\ UNCHANGED <<static, rest_data, rest_freed, threads, num_threads, target,
                   crashed, history, call_after_term, io>>

\* lines 251-252: if (suspend_all_request == 0) sleep_time += 2000;
Resume_sleep_test ==
    /\ Ready
    /\ pc = "sleep_test"
    /\ IF suspend_all_request = 0
       THEN /\ polls < MaxPolls
            /\ sleep_time' = sleep_time + SleepIncrement
            /\ pc' = "sleep"
       ELSE /\ pc' = "loop_test"
            /\ UNCHANGED sleep_time
    /\ UNCHANGED <<static, rest_data, rest_freed, threads, num_threads, target,
                   crashed, history, call_after_term, io>>

\* line 253: usleep(sleep_time);
Resume_sleep ==
    /\ Ready
    /\ pc = "sleep"
    /\ slept' = Append(slept, sleep_time)
    /\ sleeps_since_req' = sleeps_since_req + (IF req_polling THEN 1 ELSE 0)
    /\ pc' = "loop_test"
    /\ UNCHANGED <<static, rest_data, rest_freed, sleep_time, threads, num_threads,
                   target, crashed, polls, trace, first_ds, req_before, req_polling,
                   gathers_since_req, call_after_term, io>>

Resume_clear_AlsoTerminated ==
    /\ Ready
    /\ pc = "clear"
    /\ suspend_all_request' = 0
    /\ terminated' = 0
    /\ trace' = Append(trace, "clear")
    /\ pc' = "suspend_all"
    /\ UNCHANGED <<threads_at_rest, num_threads_at_rest, rest_data, rest_freed,
                   sleep_time, threads, num_threads, target, crashed, polls,
                   first_ds, req_before, req_polling, gathers_since_req,
                   sleeps_since_req, slept, call_after_term, io>>

\* line 264: suspend_all_request = 0;
Resume_clear ==
    /\ Ready
    /\ pc = "clear"
    /\ suspend_all_request' = 0
    /\ trace' = Append(trace, "clear")
    /\ pc' = "suspend_all"
    /\ UNCHANGED <<terminated, threads_at_rest, num_threads_at_rest, rest_data, rest_freed,
                   sleep_time, threads, num_threads, target, crashed, polls,
                   first_ds, req_before, req_polling, gathers_since_req,
                   sleeps_since_req, slept, call_after_term, io>>

Resume_suspend_all_Skipped ==
    /\ Ready
    /\ pc = "suspend_all"
    /\ trace' = Append(trace, "db_suspend_all")
    /\ pc' = "final_gather"
    /\ UNCHANGED <<static, rest_data, rest_freed, sleep_time, threads, num_threads,
                   target, crashed, polls, first_ds, req_before, req_polling,
                   gathers_since_req, sleeps_since_req, slept, call_after_term, io>>

\* line 266: db_suspend_all();
Resume_suspend_all ==
    /\ Ready
    /\ pc = "suspend_all"
    /\ tflags' = IF domain = "alive"
                 THEN [t \in ThreadIds |-> db_suspend_all_flags(tflags[t])]
                 ELSE tflags
    /\ DbCall
    /\ trace' = Append(trace, "db_suspend_all")
    /\ pc' = "final_gather"
    /\ UNCHANGED <<static, rest_data, rest_freed, sleep_time, threads, num_threads,
                   domain, crashed, polls, first_ds, req_before, req_polling,
                   gathers_since_req, sleeps_since_req, slept, io>>

\* line 267: threads = db_gather_threads(&num_threads);
\* for a NULL list the count is whatever the collaborator left in num_threads
Resume_final_gather ==
    /\ Ready
    /\ pc = "final_gather"
    /\ threads' = db_gather_threads
    /\ IF Ptr(db_gather_threads) = NULL
       THEN num_threads' \in 0 .. NumThreads
       ELSE num_threads' = Len(db_gather_threads)
    /\ DbCall
    /\ trace' = Append(trace, "db_gather_threads")
    /\ pc' = "cache_ptr"
    /\ UNCHANGED <<static, rest_data, rest_freed, sleep_time, target, crashed, polls,
                   first_ds, req_before, req_polling, gathers_since_req,
                   sleeps_since_req, slept, io>>

\* line 269: threads_at_rest = threads;
Resume_cache_ptr ==
    /\ Ready
    /\ pc = "cache_ptr"
    /\ threads_at_rest' = Ptr(threads)
    /\ rest_data' = threads
    /\ rest_freed' = FALSE
    /\ trace' = Append(trace, "cache")
    /\ pc' = "cache_num"
    /\ UNCHANGED <<terminated, num_threads_at_rest, suspend_all_request, sleep_time,
                   threads, num_threads, target, crashed, polls, first_ds,
                   req_before, req_polling, gathers_since_req, sleeps_since_req,
                   slept, call_after_term, io>>

\* lines 270-271: num_threads_at_rest = num_threads; return 0;
Resume_cache_num ==
    /\ Ready
    /\ pc = "cache_num"
    /\ num_threads_at_rest' = num_threads
    /\ out' = <<"nativeResume", 0>>
    /\ pc' = "idle"
    /\ UNCHANGED <<terminated, threads_at_rest, suspend_all_request, rest_data, rest_freed,
                   sleep_time, threads, num_threads, target, crashed, history,
                   call_after_term, inp>>

(***************************************************************************)
(* get_wp_thread and the watchpoint queries                                *)
(***************************************************************************)
\* the loop of lines 317-321 over arr[i .. n]
RECURSIVE wp_scan(_, _, _)
wp_scan(arr, n, i) ==
    IF i > n THEN -1
    ELSE IF is_th_state(arr[i], WATCH_FLAG) = 1 THEN arr[i].id
    ELSE wp_scan(arr, n, i + 1)

\* The loop of get_wp_thread reads threads_at_rest[0 .. num_threads_at_rest - 1]:
\* through a null pointer that is a fault
get_wp_thread_faults == num_threads_at_rest > 0 /\ threads_at_rest = NULL

\* the values a call of get_wp_thread can return in the current state: in a
\* released block or past the end of the block the words read are arbitrary
get_wp_thread ==
    IF num_threads_at_rest = 0 THEN {-1}
    ELSE IF threads_at_rest = NULL THEN {}
    ELSE IF rest_freed THEN {-1} \cup ThreadIds
    ELSE LET m == Min(num_threads_at_rest, Len(rest_data))
             r == wp_scan(rest_data, m, 1)
         IN  IF r >= 0 \/ num_threads_at_rest <= Len(rest_data) THEN {r}
             ELSE {-1} \cup ThreadIds

\* lines 325-334
nativeReadWatchpointAddress ==
    /\ Ready
    /\ IF get_wp_thread_faults
       THEN /\ crashed' = TRUE
            /\ UNCHANGED <<call_after_term, io>>
       ELSE \E r \in get_wp_thread :
               /\ out' = <<"nativeReadWatchpointAddress", r,
                           IF r < 0 THEN 0 ELSE "db_watchpoint_info">>
               /\ IF r < 0 THEN UNCHANGED call_after_term ELSE DbCall
               /\ UNCHANGED <<crashed, inp>>
    /\ UNCHANGED <<static, rest_data, rest_freed, locals, target, history>>

\* the watchpoint kind bits
AFTER_W == "AFTER_W"
READ_W == "READ_W"
WRITE_W == "WRITE_W"
EXEC_W == "EXEC_W"

WatchKinds == {AFTER_W, READ_W, WRITE_W, EXEC_W}

ReadWatchpointAccessCode_KeepsAfter(thread_id, kind) ==
    IF thread_id < 0
    THEN [ret |-> {}, db |-> << >>]
    ELSE [ret |-> kind, db |-> <<"db_watchpoint_info">>]

\* lines 336-347, for the thread get_wp_thread found and the kind the
\* collaborator reports for it: the value returned and the db_* calls made
ReadWatchpointAccessCode(thread_id, kind) ==
    IF thread_id < 0
    THEN [ret |-> {}, db |-> << >>]
    ELSE [ret |-> kind \ {AFTER_W}, db |-> <<"db_watchpoint_info">>]

nativeReadWatchpointAccessCode ==
    /\ Ready
    /\ IF get_wp_thread_faults
       THEN /\ crashed' = TRUE
            /\ UNCHANGED call_after_term
       ELSE \E r \in get_wp_thread :
               /\ IF ReadWatchpointAccessCode(r, {}).db = << >>
                  THEN UNCHANGED call_after_term ELSE DbCall
               /\ UNCHANGED crashed
    /\ UNCHANGED <<static, rest_data, rest_freed, locals, target, history, io>>

(***************************************************************************)
(* nativeGatherThreads, checked_get_regs, gather_and_trace_threads         *)
(***************************************************************************)
\* what nativeGatherThreads hands to teleProcess_jniGatherThread per thread
Reported(ths) == [i \in 1 .. Len(ths) |-> [id |-> ths[i].id, state |-> toThreadState(ths[i].flags)]]

nativeGatherThreads_FromCache ==
    /\ Ready
    /\ DbCall
    /\ out' = <<"nativeGatherThreads", Reported(rest_data), 0>>
    /\ UNCHANGED <<static, rest_data, rest_freed, locals, target, crashed, history, inp>>

\* lines 178-180 for a thread whose registers db_get_regs does not find:
\* checked_get_regs has traced and returned NULL, and line 179 reads
\* db_regs->rsp through it.  The read is undefined: the process faults, or it
\* goes on with whatever it read
GatherThreads_NoRegs(ths) ==
    \/ /\ crashed' = TRUE
       /\ out' = <<"nativeGatherThreads", "fault", "db_regs">>
       /\ UNCHANGED inp
    \/ /\ out' = <<"nativeGatherThreads", Reported(ths), 0>>
       /\ UNCHANGED <<crashed, inp>>

\* lines 167-185.  regs_ok: db_get_regs finds the registers of every thread
\* listed.  For a NULL list the loop runs over whatever count the collaborator
\* left: no iteration, or a read through the null list
nativeGatherThreads ==
    /\ Ready
    /\ DbCall
    /\ LET ths == db_gather_threads
       IN  IF Ptr(ths) = NULL
           THEN \/ /\ out' = <<"nativeGatherThreads", << >>, 0>>
                   /\ UNCHANGED <<crashed, inp>>
                \/ /\ crashed' = TRUE
                   /\ out' = <<"nativeGatherThreads", "fault", "threads">>
                   /\ UNCHANGED inp
           ELSE \E regs_ok \in BOOLEAN :
                   IF regs_ok
                   THEN /\ out' = <<"nativeGatherThreads", Reported(ths), 0>>
                        /\ UNCHANGED <<crashed, inp>>
                   ELSE GatherThreads_NoRegs(ths)
    /\ UNCHANGED <<static, rest_data, rest_freed, locals, target, history>>

(***************************************************************************)
(* Entry points that only pass a request on to the collaborator            *)
(***************************************************************************)
\* an entry point without effect on the statics that makes the db_* calls of
\* the list calls
PassThrough(calls) ==
    /\ IF calls = << >> THEN UNCHANGED call_after_term ELSE DbCall
    /\ UNCHANGED <<static, rest_data, rest_freed, locals, target, crashed, history, io>>

\* lines 87-91
nativeSuspend ==
    /\ Ready
    /\ PassThrough(<<"db_suspend">>)

\* lines 93-97
nativeSingleStep ==
    /\ Ready
    /\ PassThrough(<<"db_single_step">>)

\* lines 284-292
nativeReadBytes ==
    /\ Ready
    /\ PassThrough(<<"db_readbytes">>)

nativeWriteBytes ==
    /\ Ready
    /\ PassThrough(<<"db_writebytes">>)

\* lines 105-144, as far as the statics and the db_* calls go: a length above
\* the canonical size returns before any call
nativeReadRegisters ==
    /\ Ready
    /\ \E too_large \in BOOLEAN :
        PassThrough(IF too_large THEN << >> ELSE <<"db_get_regs">>)

\* lines 299-308: the value returned and the db_* calls made; db_result is
\* what db_activate_watchpoint answers
ActivateWatchpoint_NoCheck(address, size, after, read, write, exec, db_result) ==
    LET kind == (IF after THEN {AFTER_W} ELSE {}) \cup (IF read THEN {READ_W} ELSE {})
                \cup (IF write THEN {WRITE_W} ELSE {}) \cup (IF exec THEN {EXEC_W} ELSE {})
    IN  [ret |-> db_result,
         db |-> << <<"db_activate_watchpoint", address, size, kind>> >>]

\* false as a jboolean
false == 0

ActivateWatchpoint(address, size, after, read, write, exec, db_result) ==
    LET kind == (IF after THEN {AFTER_W} ELSE {}) \cup (IF read THEN {READ_W} ELSE {})
                \cup (IF write THEN {WRITE_W} ELSE {}) \cup (IF exec THEN {EXEC_W} ELSE {})
    IN  IF ~after
        THEN [ret |-> false, db |-> << >>]
        ELSE [ret |-> db_result,
              db |-> << <<"db_activate_watchpoint", address, size, kind>> >>]

nativeActivateWatchpoint ==
    /\ Ready
    /\ \E after \in BOOLEAN :
        PassThrough(ActivateWatchpoint(0, 0, after, FALSE, FALSE, FALSE, 1).db)

\* lines 310-313
nativeDeactivateWatchpoint ==
    /\ Ready
    /\ PassThrough(<<"db_deactivate_watchpoint">>)

\* an entry point returns: its caller takes the result, the frame and the
\* history of a finished resume cycle are gone
Return ==
    /\ ~crashed
    /\ out # << >>
    /\ out' = << >>
    /\ IF out[1] = "nativeResume"
       THEN /\ sleep_time' = 0
            /\ threads' = NoThreads
            /\ num_threads' = 0
            /\ polls' = 0
            /\ trace' = << >>
            /\ first_ds' = 0
            /\ req_before' = FALSE
            /\ req_polling' = FALSE
            /\ gathers_since_req' = 0
            /\ sleeps_since_req' = 0
            /\ slept' = << >>
       ELSE UNCHANGED <<sleep_time, threads, num_threads, history>>
    /\ UNCHANGED <<static, rest_data, rest_freed, pc, target, crashed,
                   call_after_term, inp>>

Next ==
    \/ TargetSelfSuspend
    \/ TargetHitWatchpoint
    \/ TargetSleep
    \/ TargetWake
    \/ TargetWakeAtWatchpoint
    \/ TargetExit
    \/ teleThreadLocalsInitialize
    \/ nativeAttach
    \/ nativeSuspendAll
    \/ Resume_free
    \/ Resume_resume_all
    \/ Resume_loop_test
    \/ Resume_poll
    \/ Resume_sleep_test
    \/ Resume_sleep
    \/ Resume_clear
    \/ Resume_suspend_all
    \/ Resume_final_gather
    \/ Resume_cache_ptr
    \/ Resume_cache_num
    \/ nativeReadWatchpointAddress
    \/ nativeReadWatchpointAccessCode
    \/ nativeGatherThreads
    \/ nativeSuspend
    \/ nativeSingleStep
    \/ nativeReadBytes
    \/ nativeWriteBytes
    \/ nativeReadRegisters
    \/ nativeActivateWatchpoint
    \/ nativeDeactivateWatchpoint
    \/ Return

Spec == Init /\ [][Next]_vars

(***************************************************************************)
(* Progress.  The thread inside nativeResume keeps being scheduled, and a   *)
(* caller takes the result of the entry point it called.                   *)
(***************************************************************************)
\* a step of the cycle in progress
ResumeStep ==
    \/ Resume_resume_all
    \/ Resume_loop_test
    \/ Resume_poll
    \/ Resume_sleep_test
    \/ Resume_sleep
    \/ Resume_clear
    \/ Resume_suspend_all
    \/ Resume_final_gather
    \/ Resume_cache_ptr
    \/ Resume_cache_num

SpecLive == Init /\ [][Next]_vars /\ SF_vars(ResumeStep) /\ WF_vars(Return)

\* the cycle has made all the polls it is followed for and found no reason to
\* leave the loop
PollBudgetSpent == pc = "sleep_test" /\ suspend_all_request = 0 /\ polls >= MaxPolls

(***************************************************************************)
(* nativeReadRegisters as a function of its arguments                      *)
(***************************************************************************)
\* true as a jboolean
true == 1

\* lines 211-218: the db_* calls of the diagnostic dump
gather_and_trace_threads(term) ==
    IF term # 0 THEN << >> ELSE <<"db_gather_threads">>

\* lines 71-79: found says whether db_get_regs knows the thread; the result is
\* whether a register block is returned, and the db_* calls made
checked_get_regs(found, term) ==
    [regs |-> found,
     db |-> <<"db_get_regs">> \o (IF found THEN << >> ELSE gather_and_trace_threads(term))]

\* lines 116-143: the value returned, the db_* calls made and the number of
\* bytes SetByteArrayRegion stores into the integer, state and floating point
\* arrays
ReadRegisters(integerRegistersLength, stateRegistersLength, floatingPointRegistersLength, found, term) ==
    LET none == [integer |-> 0, state |-> 0, floatingPoint |-> 0]
        got == checked_get_regs(found, term)
    IN  IF integerRegistersLength > IntegerRegionSize
        THEN [ret |-> false, db |-> << >>, written |-> none]
        ELSE IF stateRegistersLength > StateRegionSize
        THEN [ret |-> false, db |-> << >>, written |-> none]
        ELSE IF floatingPointRegistersLength > FloatingPointRegionSize
        THEN [ret |-> false, db |-> << >>, written |-> none]
        ELSE IF ~got.regs
        THEN [ret |-> false, db |-> got.db, written |-> none]
        ELSE [ret |-> true, db |-> got.db,
              written |-> [integer |-> integerRegistersLength,
                           state |-> stateRegistersLength,
                           floatingPoint |-> floatingPointRegistersLength]]

(***************************************************************************)
(* The stateless functions applied to every input of a bounded set.        *)
(***************************************************************************)
Addresses == {0, 4096}
Sizes == {1, 8}

RegLengths == 0 .. MaxRegLen

\* what get_wp_thread can hand to its callers
WpThreadIds == {-1} \cup ThreadIds

PureInputs ==
    {<<"toThreadState", f>> : f \in SUBSET AllFlags}
    \cup {<<"nativeActivateWatchpoint", a, sz, k, r>> :
             a \in Addresses, sz \in Sizes,
             k \in [{"after", "read", "write", "exec"} -> BOOLEAN], r \in {0, 1}}
    \cup {<<"nativeReadWatchpointAccessCode", t, kind>> :
             t \in WpThreadIds, kind \in SUBSET WatchKinds}
    \cup {<<"nativeReadRegisters", il, sl, fl, found, term>> :
             il \in RegLengths, sl \in RegLengths, fl \in RegLengths,
             found \in BOOLEAN, term \in {0, 1}}

InitPure == Start /\ inp \in PureInputs

Call_toThreadState ==
    /\ Ready
    /\ inp[1] = "toThreadState"
    /\ out' = <<"toThreadState", toThreadState(inp[2])>>
    /\ UNCHANGED <<static, rest_data, rest_freed, locals, target, crashed, history,
                   call_after_term, inp>>

Call_nativeActivateWatchpoint ==
    /\ Ready
    /\ inp[1] = "nativeActivateWatchpoint"
    /\ LET k == inp[4]
           res == ActivateWatchpoint(inp[2], inp[3], k["after"], k["read"], k["write"],
                                     k["exec"], inp[5])
       IN  /\ out' = <<"nativeActivateWatchpoint", res.ret, res.db>>
           /\ IF res.db = << >> THEN UNCHANGED call_after_term ELSE DbCall
    /\ UNCHANGED <<static, rest_data, rest_freed, locals, target, crashed, history, inp>>

Call_nativeReadRegisters ==
    /\ Ready
    /\ inp[1] = "nativeReadRegisters"
    /\ LET res == ReadRegisters(inp[2], inp[3], inp[4], inp[5], inp[6])
       IN  out' = <<"nativeReadRegisters", res.ret, res.db, res.written>>
    /\ UNCHANGED <<static, rest_data, rest_freed, locals, target, crashed, history,
                   call_after_term, inp>>

Call_nativeReadWatchpointAccessCode ==
    /\ Ready
    /\ inp[1] = "nativeReadWatchpointAccessCode"
    /\ LET res == ReadWatchpointAccessCode(inp[2], inp[3])
       IN  /\ out' = <<"nativeReadWatchpointAccessCode", res.ret, res.db>>
           /\ IF res.db = << >> THEN UNCHANGED call_after_term ELSE DbCall
    /\ UNCHANGED <<static, rest_data, rest_freed, locals, target, crashed, history, inp>>

NextPure ==
    \/ Call_nativeReadWatchpointAccessCode
    \/ Call_nativeReadRegisters
    \/ Call_toThreadState
    \/ Call_nativeActivateWatchpoint
    \/ Return

SpecPure == InitPure /\ [][NextPure]_vars

(***************************************************************************)
(* Properties                                                              *)
(***************************************************************************)
InTrace(e) == \E i \in DOMAIN trace : trace[i] = e

\* nativeResume has just returned the value v
Returned(v) == out = <<"nativeResume", v>>

\* the calls of a cycle that left its loop after k polls
CycleTrace(k) ==
    [i \in 1 .. k + 1 |-> IF i = 1 THEN "db_resume_all" ELSE "db_gather_threads"]
    \o <<"clear", "db_suspend_all", "db_gather_threads", "cache">>

\* the trace without the discard of line 227 at its head
Calls(tr) == IF tr # << >> /\ tr[1] = "free" THEN Tail(tr) ELSE tr

\* C1 (as stated): after a call of nativeSuspendAll during the polling loop the
\* cycle makes at most one more poll and at most one more sleep, and it then
\* always goes on to db_suspend_all and returns 0.
C1_RequestForcesSuspend ==
    /\ req_polling => gathers_since_req <= 1 /\ sleeps_since_req <= 1
    /\ req_polling /\ Polling => suspend_all_request = 1
    /\ req_polling /\ pc = "idle" /\ out # << >> =>
           Returned(0) /\ InTrace("db_suspend_all")

\* C1 (amended): after a call of nativeSuspendAll during the polling loop the
\* flag stays set until the loop is left, the cycle makes at most one more poll
\* and at most one more sleep, and it goes on to db_suspend_all and returns 0
\* unless that one further poll finds the domain gone, in which case it signs
\* off and returns 1.
C1_RequestEndsPolling ==
    /\ req_polling => gathers_since_req <= 1 /\ sleeps_since_req <= 1
    /\ req_polling /\ Polling => suspend_all_request = 1
    /\ req_polling /\ pc = "idle" /\ out # << >> =>
           \/ Returned(0) /\ InTrace("db_suspend_all")
           \/ Returned(1) /\ gathers_since_req = 1 /\ trace[Len(trace)] = "db_signoff"

\* C1 witness: a cycle ended by a request alone, no thread ever seen halted
C1_Witness ==
    Returned(0) /\ req_polling /\ ~req_before /\ first_ds = 0 /\ polls >= 1

\* C2: without a request, a cycle that returns 0 made exactly as many polls as
\* it took to see a debug-suspended thread, after db_resume_all, and then
\* cleared the flag, called db_suspend_all, gathered once more and cached that
\* list, in this order.
C2_FirstHaltEndsCycle ==
    Returned(0) /\ ~req_before /\ ~req_polling =>
        /\ first_ds >= 1
        /\ polls = first_ds
        /\ Calls(trace) = CycleTrace(first_ds)
        /\ threads_at_rest = Ptr(threads)
        /\ rest_data = threads
        /\ ~rest_freed
        /\ num_threads_at_rest = num_threads

\* C2 witness: the halted thread shows up in the last poll the model follows
C2_Witness ==
    Returned(0) /\ ~req_before /\ ~req_polling /\ first_ds = MaxPolls
    /\ threads_at_rest = Block

\* C3: a poll that finds no threads signs off, sets terminated and returns 1;
\* the cycle has made no db_suspend_all call, no final gather and no store to
\* the cache or to suspend_all_request; any other poll returns nothing.
C3_TerminationPath ==
    [][pc = "gather" /\ pc' # "gather" =>
          IF db_gather_threads = NoThreads
          THEN /\ out' = <<"nativeResume", 1>>
               /\ terminated' = 1
               /\ trace' = trace \o <<"db_gather_threads", "db_signoff">>
               /\ \A i \in DOMAIN trace' :
                      trace'[i] \notin {"clear", "db_suspend_all", "cache"}
               /\ Len(Calls(trace')) = polls' + 2
               /\ threads_at_rest' = (IF trace[1] = "free" THEN Block ELSE NULL)
               /\ UNCHANGED <<threads_at_rest, num_threads_at_rest, rest_data,
                              rest_freed, suspend_all_request>>
          ELSE out' = << >> /\ terminated' = terminated]_vars

\* C3 witness: termination seen in a cycle that began with a cached snapshot
C3_Witness ==
    Returned(1) /\ terminated = 1 /\ threads_at_rest = Block /\ rest_freed

\* a thread list records thread i as halted for the debugger
Halted(flags) == RUNNABLE_FLAG \notin flags /\ RUNNING_FLAG \notin flags

C5_NoCallAfterTermination == ~call_after_term

\* the cache is one snapshot: no list and a count of 0, or a live block and
\* the count of its entries
CacheIsOneSnapshot ==
    \/ threads_at_rest = NULL /\ num_threads_at_rest = 0
    \/ threads_at_rest = Block /\ ~rest_freed
       /\ num_threads_at_rest = Len(rest_data)

\* C6 (as stated): whenever a watchpoint query can run, pointer and count of
\* the cache describe one snapshot.
C6_ReaderSeesOneSnapshot == Ready => CacheIsOneSnapshot

\* C7: within a connection the cached list changes only in nativeResume, which
\* releases it at line 227 and installs a whole gathered list at lines 269-270;
\* no other entry point changes pointer, count or contents, and
\* nativeGatherThreads reports a fresh list.
C7_CacheFrame ==
    [][LET reset == /\ pc = "idle" /\ pc' = "idle" /\ out = << >>
                    /\ out' = <<"teleThreadLocalsInitialize", static>>
                    /\ threads_at_rest' = NULL /\ num_threads_at_rest' = 0
                    /\ rest_data' = NoThreads /\ terminated' = 0
                    /\ suspend_all_request' = 0
       IN  /\ threads_at_rest' # threads_at_rest =>
                 reset \/ (pc = "cache_ptr" /\ threads_at_rest' = Ptr(threads))
           /\ rest_data' # rest_data =>
                 \/ reset
                 \/ pc = "idle" /\ pc' = "resume_all" /\ rest_data' = NoThreads
                 \/ pc = "cache_ptr" /\ rest_data' = threads
           /\ rest_freed' # rest_freed =>
                 reset \/ (pc = "idle" /\ pc' = "resume_all") \/ pc = "cache_ptr"
           /\ num_threads_at_rest' # num_threads_at_rest =>
                 reset \/ (pc = "cache_num" /\ num_threads_at_rest' = num_threads)
           /\ out' # out /\ out' # << >> /\ out'[1] = "nativeGatherThreads" /\ ~crashed' =>
                 out'[2] = Reported(db_gather_threads)]_vars

\* C7 witness: nativeGatherThreads reports a list other than the cached one
C7_Witness ==
    /\ ~crashed /\ out # << >> /\ out[1] = "nativeGatherThreads"
    /\ threads_at_rest = Block /\ ~rest_freed /\ CacheIsOneSnapshot
    /\ out[2] # Reported(rest_data)

\* the first thread of a list, in order, that toThreadState puts at a watchpoint
RECURSIVE FirstAtWatchpoint(_, _)
FirstAtWatchpoint(arr, i) ==
    IF i > Len(arr) THEN -1
    ELSE IF toThreadState(arr[i].flags) = "TS_WATCHPOINT" THEN arr[i].id
    ELSE FirstAtWatchpoint(arr, i + 1)

\* C8 (as stated): over a cache that is one snapshot get_wp_thread returns the
\* first thread classified TS_WATCHPOINT, and -1 if there is none.
C8_WatchpointThreadIsClassified ==
    out # << >> /\ out[1] = "nativeReadWatchpointAddress" /\ CacheIsOneSnapshot =>
        out[2] = FirstAtWatchpoint(rest_data, 1)

\* the flags toThreadState looks at, most urgent first, and their states
PriorityFlags == <<AUX1_FLAG, AUX2_FLAG, JOIN_FLAG, SLEEP_FLAG, WATCH_FLAG>>
PriorityStates ==
    <<"TS_MONITOR_WAIT", "TS_NOTIFY_WAIT", "TS_JOIN_WAIT", "TS_SLEEPING", "TS_WATCHPOINT">>

\* C9: toThreadState returns the state of the first flag set in the order
\* monitor-wait, notify-wait, join-wait, sleeping, watchpoint, and
\* TS_SUSPENDED when none is set, whatever the other five flags are.
C9_ClassifyPriority ==
    out # << >> /\ out[1] = "toThreadState" =>
        LET flags == inp[2]
            hits == {k \in DOMAIN PriorityFlags : PriorityFlags[k] \in flags}
        IN  /\ hits = {} => out[2] = "TS_SUSPENDED"
            /\ hits # {} =>
                   \E k \in hits : /\ \A j \in hits : k <= j
                                   /\ out[2] = PriorityStates[k]
            /\ out[2] = toThreadState(flags \ {RUNNABLE_FLAG, RUNNING_FLAG, DYING_FLAG,
                                               REQ_DEBUG_SUSPEND_FLAG, DEBUG_SUSPEND_FLAG})

\* C9 witness: sleeping and watchpoint-hit together classify as sleeping
C9_Witness ==
    /\ out # << >> /\ out[1] = "toThreadState"
    /\ inp[2] = {SLEEP_FLAG, WATCH_FLAG} /\ out[2] = "TS_SLEEPING"

\* C10: without the after flag nativeActivateWatchpoint returns false and makes
\* no db_* call; with it, it makes one db_activate_watchpoint call with the
\* address, the size and the kind of after plus exactly the flags asked for,
\* and returns what that call answers.
C10_ActivateNeedsAfter ==
    out # << >> /\ out[1] = "nativeActivateWatchpoint" =>
        LET k == inp[4]
            asked == {b \in {"read", "write", "exec"} : k[b]}
            bits == [read |-> READ_W, write |-> WRITE_W, exec |-> EXEC_W]
        IN  IF k["after"]
            THEN /\ out[3] = << <<"db_activate_watchpoint", inp[2], inp[3],
                                  {AFTER_W} \cup {bits[b] : b \in asked}>> >>
                 /\ out[2] = inp[5]
            ELSE /\ out[3] = << >>
                 /\ out[2] = 0

\* C10 witness: a request for a read/write watchpoint without after is refused
C10_Witness ==
    /\ out # << >> /\ out[1] = "nativeActivateWatchpoint"
    /\ ~inp[4]["after"] /\ inp[4]["read"] /\ inp[4]["write"] /\ inp[5] = 1
    /\ out[2] = 0

\* what nativeReadRegisters answered for the input inp
ReadRegistersResult == [ret |-> out[2], db |-> out[3], written |-> out[4]]

\* C11 (as stated): a call of nativeReadRegisters with an array shorter than its
\* canonical region returns false and stores into none of the three arrays,
\* and a call that returns true has stored every region whole.
C11_ShortBufferRejected ==
    out # << >> /\ out[1] = "nativeReadRegisters" =>
        LET res == ReadRegistersResult
        IN  /\ (\/ inp[2] < IntegerRegionSize
                \/ inp[3] < StateRegionSize
                \/ inp[4] < FloatingPointRegionSize)
                   => /\ res.ret = false
                      /\ res.written = [integer |-> 0, state |-> 0, floatingPoint |-> 0]
            /\ res.ret = true =>
                   res.written = [integer |-> IntegerRegionSize,
                                  state |-> StateRegionSize,
                                  floatingPoint |-> FloatingPointRegionSize]

\* C12 (as stated, for nativeGatherThreads): a register lookup that fails for a
\* listed thread does not bring the process down.
C12_LostRegistersSurvived ==
    ~(crashed /\ out = <<"nativeGatherThreads", "fault", "db_regs">>)

\* C13: nativeReadWatchpointAccessCode never returns the after bit; for a
\* thread at a watchpoint it makes one db_watchpoint_info call and returns the
\* read, write and exec bits of the reported kind as they are; without such a
\* thread it returns 0 and makes no call.
C13_AccessCodeDropsAfter ==
    out # << >> /\ out[1] = "nativeReadWatchpointAccessCode" =>
        IF inp[2] < 0
        THEN out[2] = {} /\ out[3] = << >>
        ELSE /\ AFTER_W \notin out[2]
             /\ \A b \in {READ_W, WRITE_W, EXEC_W} : b \in out[2] <=> b \in inp[3]
             /\ out[2] \subseteq WatchKinds
             /\ out[3] = <<"db_watchpoint_info">>

\* C13 witness: a reported kind of after and read comes back as read alone
C13_Witness ==
    /\ out # << >> /\ out[1] = "nativeReadWatchpointAccessCode"
    /\ inp[2] > 0 /\ inp[3] = {AFTER_W, READ_W} /\ out[2] = {READ_W}

\* the coordinator as the first connection finds it
FreshCoordinator ==
    /\ terminated = 0 /\ threads_at_rest = NULL /\ num_threads_at_rest = 0
    /\ suspend_all_request = 0
    /\ rest_data = NoThreads /\ ~rest_freed
    /\ locals = <<"idle", 0, NoThreads, 0>>
    /\ history = <<0, << >>, 0, FALSE, FALSE, 0, 0, << >> >>

\* C14: whatever the statics were, after teleThreadLocalsInitialize there is
\* no cached list, the count is 0, terminated and suspend_all_request are 0,
\* and the coordinator is in the state in which a first connection starts.
C14_ResetGivesFreshState ==
    out # << >> /\ out[1] = "teleThreadLocalsInitialize" => FreshCoordinator

\* C14 witness: a reset of a terminated connection with a cached list and a
\* request pending
C14_Witness ==
    /\ out # << >> /\ out[1] = "teleThreadLocalsInitialize"
    /\ out[2][1] = 1 /\ out[2][2] = Block /\ out[2][3] > 0 /\ out[2][4] = 1

\* C15: terminated goes from 1 to anything else only in
\* teleThreadLocalsInitialize, whatever entry point runs, and from 0 to 1 only
\* in the poll of nativeResume that finds no thread list and returns 1.
C15_TerminatedIsPermanent ==
    [][/\ terminated = 1 /\ terminated' # 1 =>
              /\ terminated' = 0
              /\ out' # << >>
              /\ out'[1] = "teleThreadLocalsInitialize"
       /\ terminated = 0 /\ terminated' # 0 =>
              /\ terminated' = 1
              /\ pc = "gather"
              /\ db_gather_threads = NoThreads
              /\ out' = <<"nativeResume", 1>>]_vars

\* C15 witness: a whole later cycle has run on the terminated connection and
\* terminated is still set
C15_Witness == terminated = 1 /\ Returned(0)

\* C16: in every cycle the n-th sleep of the polling loop lasts n * 2000
\* usecs, starting from 2000 again in each cycle; there is at most one sleep
\* per poll, none after a poll that showed a debug-suspended thread, and none
\* when suspend_all_request is set at the test of line 251.
C16_LinearBackoff ==
    /\ [](/\ \A n \in DOMAIN slept : slept[n] = n * SleepIncrement
          /\ sleep_time = (Len(slept) + (IF pc = "sleep" THEN 1 ELSE 0)) * SleepIncrement
          /\ Len(slept) <= polls
          /\ first_ds > 0 => Len(slept) < first_ds
          /\ pc = "sleep" => first_ds = 0 /\ Len(slept) < polls)
    /\ [][pc = "sleep_test" /\ suspend_all_request = 1 =>
              pc' # "sleep" /\ sleep_time' = sleep_time /\ slept' = slept]_vars

\* C16 witness: the second sleep of a cycle that began with a cached list
\* lasts 4000 usecs
C16_Witness ==
    /\ Len(slept) = 2 /\ slept[2] = 4000
    /\ trace # << >> /\ trace[1] = "free"

\* a reason to leave the polling loop that stays once it is there
ExitReason ==
    \/ suspend_all_request = 1
    \/ domain = "exited"
    \/ \E t \in ThreadIds : DEBUG_SUSPEND_FLAG \in tflags[t]

\* C17: the polling loop is left only at the loop test with suspend_all_request
\* set, or from a poll that finds no thread list; during polling the flag is
\* set only by a poll that shows a debug-suspended thread or by
\* nativeSuspendAll; no count of polls or sleeps ends the loop.  Once a reason
\* to leave is there the cycle returns, as long as the process lives and the
\* cycle is followed.
C17_NoTimeout ==
    /\ [][(Polling /\ ~Polling' =>
               \/ (pc = "loop_test" /\ suspend_all_request = 1 /\ pc' = "clear")
               \/ (/\ pc = "gather"
                   /\ db_gather_threads = NoThreads
                   /\ out' = <<"nativeResume", 1>>))
          /\ (Polling /\ suspend_all_request = 0 /\ suspend_all_request' = 1 =>
               \/ (pc = "gather" /\ \E t \in ThreadIds : DEBUG_SUSPEND_FLAG \in tflags[t])
               \/ (req_polling' /\ pc' = pc))]_vars
    /\ (Polling /\ ExitReason) ~> (~Polling \/ crashed \/ PollBudgetSpent)
    /\ (pc # "idle") ~> (pc = "idle" \/ Polling \/ crashed)

\* C17 witness: a cycle still polling after every poll and sleep it is
\* followed for, with no thread halted and no request
C17_Witness ==
    /\ PollBudgetSpent /\ Len(slept) = MaxPolls - 1
    /\ first_ds = 0 /\ ~req_before /\ ~req_polling /\ domain = "alive"

\* C18 (as stated): when nativeResume returns 0 the cache holds a thread
\* list, never the NULL a gather answers for a domain that has exited.
C18_SuccessHasSnapshot ==
    Returned(0) => threads_at_rest = Block /\ rest_data # NoThreads

\* C19 (as stated): between cycles a cache pointer that is not NULL refers to
\* a block that has not been released, so that no watchpoint query reads a
\* released list and no later nativeResume releases it again.
C19_NoDanglingCache ==
    pc = "idle" /\ Ready /\ threads_at_rest # NULL => ~rest_freed

\* C20 (as stated): suspend_all_request is 0 whenever a nativeResume cycle
\* begins.
C20_NoStaleRequest ==
    [][pc = "idle" /\ pc' = "resume_all" => suspend_all_request = 0]_vars

=============================================================================
